---- MODULE Spec2Model ----
(***************************************************************************)
(* Resolution-shell binning (HklData.setup_relion_binning, utils/hkl.py)   *)
(* and the per-shell weighting pipeline (calc_noise_var, calc_D_and_S,     *)
(* calc_maps, and the argument checks of main, spa/fofc.py) of servalcat.  *)
(*                                                                         *)
(* The record table hkldata.df is columnar: df is a function from column   *)
(* label to a sequence of values, one per row.  Row positions are 1-based  *)
(* here (pandas positions after reset_index are 0-based).  d-spacings and  *)
(* the cell edge are integers in one common length unit.                   *)
(***************************************************************************)
EXTENDS Integers, Sequences, FiniteSets

VARIABLES
    df,               \* hkldata.df: column label -> sequence of row values
    sort,             \* the sort argument of setup_relion_binning
    bin_counts,       \* list of [id, idx]: raw shell id and its row index set
    bin_ranges,       \* shell id -> <<d_max, d_min>>
    modify_table,     \* insertion-ordered dict, a sequence of <<key, value>>
    i,                \* loop variable of the forward / backward / apply loops
    sweeps,           \* passes of the chain-resolution while loop made so far
    bin_and_indices,  \* hkldata._bin_and_indices
    binned_df,        \* hkldata.binned_df: list of rows [bin, d_max, d_min, ...]
    has_halfmaps,     \* main: two half maps were given
    B,                \* main: the relative B, <<>> (None) or <<b>>, see KFactor
    tmp,              \* calc_maps: output label -> array of complex values
    labs,             \* calc_maps: the labels it returns
    ofs,              \* calc_D_and_S: the rows written to the Fstats file
    log,              \* logger: the warnings written so far
    pc,               \* position inside setup_relion_binning / main
    args,             \* main: the parsed command line [halfmaps, map, B, omit]
    structure         \* main: st has been read (gemmi.read_structure, line 254)

binning == <<sort, bin_counts, bin_ranges, modify_table, sweeps, bin_and_indices>>

pipeline == <<has_halfmaps, B, tmp, labs, ofs, log>>

call == <<args, structure>>

vars == <<df, binning, i, binned_df, pipeline, pc, call>>

-----------------------------------------------------------------------------
(* Bounds of the model and constants of the program. *)

\* max(self.cell.parameters[:3]), in the unit of the d-spacings
MaxEdge == 12

\* the largest number of rows one d-spacing contributes
BigCount == 25

\* a shell with fewer members is merged forward (hkl.py line 318)
MinShellSize == 10

\* the d-spacings present in the input table, in the table's row order
DVals == <<6, 2, 30, 12, 4, 8>>

\* how many rows carry a given d-spacing
CountChoices(dv) ==
    IF dv \in {8, 30} THEN {0, 1} ELSE {0, 1, 4, MinShellSize, BigCount}

-----------------------------------------------------------------------------
(* Helpers on sets and sequences. *)

SetMax(S) == CHOOSE x \in S : \A y \in S : y <= x

SetMin(S) == CHOOSE x \in S : \A y \in S : x <= y

RECURSIVE SortedSeq(_)
\* the elements of a finite set of integers, ascending
SortedSeq(S) ==
    IF S = {} THEN <<>> ELSE <<SetMin(S)>> \o SortedSeq(S \ {SetMin(S)})

RECURSIVE Repeat(_, _)
Repeat(x, n) == IF n = 0 THEN <<>> ELSE <<x>> \o Repeat(x, n - 1)

NRows(t) == Len(t["d"])

-----------------------------------------------------------------------------
(* Floating-point numbers.  A number is a pair <<n, d>>: the fraction n/d in *)
(* lowest terms with d > 0, or <<0, 0>> (not a number), <<1, 0>> (+inf),     *)
(* <<-1, 0>> (-inf).  The operations follow IEEE 754 on these values; the    *)
(* finite results are exact, except for the square root of a non-square.     *)

Abs(x) == IF x < 0 THEN -x ELSE x

Sgn(x) == IF x > 0 THEN 1 ELSE IF x < 0 THEN -1 ELSE 0

RECURSIVE GCD(_, _)
GCD(a, b) == IF b = 0 THEN a ELSE GCD(b, a % b)

NaN == <<0, 0>>

PosInf == <<1, 0>>

NegInf == <<-1, 0>>

Zero == <<0, 1>>

One == <<1, 1>>

Num(k) == <<k, 1>>

\* the number n/d, d any integer, brought to the form above
Frac(n, d) ==
    IF d = 0 THEN <<Sgn(n), 0>>
    ELSE LET g == GCD(Abs(n), Abs(d))
         IN  <<Sgn(d) * (n \div g), Abs(d) \div g>>

IsNaN(a) == a = NaN

IsFinite(a) == a[2] # 0

Neg(a) == <<-a[1], a[2]>>

Add(a, b) ==
    IF a[2] = 0 /\ b[2] = 0 THEN (IF a = b THEN a ELSE NaN)
    ELSE IF a[2] = 0 THEN a
    ELSE IF b[2] = 0 THEN b
    ELSE LET g == GCD(a[2], b[2])
         IN  Frac(a[1] * (b[2] \div g) + b[1] * (a[2] \div g), a[2] * (b[2] \div g))

Sub(a, b) == Add(a, Neg(b))

Mul(a, b) ==
    IF a[2] = 0 \/ b[2] = 0 THEN Frac(a[1] * b[1], 0)
    ELSE LET g1 == GCD(Abs(a[1]), b[2])
             g2 == GCD(Abs(b[1]), a[2])
         IN  Frac((a[1] \div g1) * (b[1] \div g2), (a[2] \div g2) * (b[2] \div g1))

\* 1/b: 1/0 is +inf, 1/inf is 0
Inv(b) ==
    IF b = NaN THEN NaN
    ELSE IF b[2] = 0 THEN Zero
    ELSE IF b[1] = 0 THEN PosInf
    ELSE <<Sgn(b[1]) * b[2], Abs(b[1])>>

\* a/b: x/0 is an infinity of the sign of x, 0/0 and inf/inf are not a number
Div(a, b) == Mul(a, Inv(b))

\* a < b; false when either is not a number
Lt(a, b) ==
    IF a = NaN \/ b = NaN THEN FALSE
    ELSE IF a[2] = 0 \/ b[2] = 0
         THEN (IF a[2] = 0 THEN a[1] ELSE 0) < (IF b[2] = 0 THEN b[1] ELSE 0)
              \/ (a[2] # 0 /\ b = PosInf) \/ (a = NegInf /\ b[2] # 0)
    ELSE a[1] * b[2] < b[1] * a[2]

RECURSIVE ISqrtIn(_, _, _)
\* the integer square root of m, known to lie in lo..hi
ISqrtIn(m, lo, hi) ==
    IF lo = hi THEN lo
    ELSE LET mid == (lo + hi + 1) \div 2
         IN  IF mid * mid <= m THEN ISqrtIn(m, mid, hi) ELSE ISqrtIn(m, lo, mid - 1)

ISqrt(m) == ISqrtIn(m, 0, IF m < 46340 THEN m ELSE 46340)

\* the precision of the square root of a non-square, in steps per unit
SqrtScale == 16

\* numpy.sqrt: not a number below zero, exact on squares, else rounded down
Sqrt(a) ==
    IF a = NaN \/ a[1] < 0 THEN NaN
    ELSE IF a[2] = 0 THEN a
    ELSE LET rn == ISqrt(a[1])
             rd == ISqrt(a[2])
         IN  IF rn * rn = a[1] /\ rd * rd = a[2] THEN <<rn, rd>>
             ELSE Frac(ISqrt((a[1] * SqrtScale * SqrtScale) \div a[2]), SqrtScale)

RECURSIVE SumSeq(_)
\* numpy.sum of a sequence of numbers
SumSeq(xs) == IF xs = <<>> THEN Zero ELSE Add(Head(xs), SumSeq(Tail(xs)))

\* numpy.average: the sum over the length (0/0 on an empty selection)
Mean(xs) == Div(SumSeq(xs), Num(Len(xs)))

(* Complex numbers are pairs <<re, im>> of numbers.  Every product and      *)
(* quotient of the pipeline has a real factor or divisor, for which numpy's  *)
(* complex arithmetic acts on the two components alike.                      *)

Cx(re, im) == <<Num(re), Num(im)>>

CZero == <<Zero, Zero>>

CAdd(x, y) == <<Add(x[1], y[1]), Add(x[2], y[2])>>

CSub(x, y) == <<Sub(x[1], y[1]), Sub(x[2], y[2])>>

\* complex times real
CScale(x, a) == <<Mul(x[1], a), Mul(x[2], a)>>

\* complex over real
CDivR(x, a) == <<Div(x[1], a), Div(x[2], a)>>

\* numpy.abs(x)**2
Abs2(x) == Add(Mul(x[1], x[1]), Mul(x[2], x[2]))

\* numpy.real(x * numpy.conj(y))
ReConjMul(x, y) == Add(Mul(x[1], y[1]), Mul(x[2], y[2]))

\* a value with a not-a-number component
CIsNaN(x) == x[1] = NaN \/ x[2] = NaN

CMean(xs) ==
    <<Mean([k \in 1..Len(xs) |-> xs[k][1]]), Mean([k \in 1..Len(xs) |-> xs[k][2]])>>

\* the selection with its mean subtracted
Centered(xs) ==
    LET m == CMean(xs)
    IN  [k \in 1..Len(xs) |-> CSub(xs[k], m)]

\* numpy.var: the mean of |x - mean(x)|^2
Var(xs) ==
    LET c == Centered(xs)
    IN  Mean([k \in 1..Len(xs) |-> Abs2(c[k])])

\* numpy.std
Std(xs) == Sqrt(Var(xs))

\* clip to [-1, 1] as numpy.corrcoef does; not-a-number stays
Clip1(a) ==
    IF a = NaN THEN NaN
    ELSE IF Lt(One, a) THEN One
    ELSE IF Lt(a, Neg(One)) THEN Neg(One)
    ELSE a

\* numpy.real(numpy.corrcoef(x, y)[1,0]): the covariance (ddof=1) divided by
\* the standard deviation of x and then by that of y, clipped
CorrCoef(xs, ys) ==
    LET n1 == Num(Len(xs) - 1)
        cx == Centered(xs)
        cy == Centered(ys)
        cxy == Div(SumSeq([k \in 1..Len(xs) |-> ReConjMul(cy[k], cx[k])]), n1)
        vx == Div(SumSeq([k \in 1..Len(xs) |-> Abs2(cx[k])]), n1)
        vy == Div(SumSeq([k \in 1..Len(ys) |-> Abs2(cy[k])]), n1)
    IN  Clip1(Div(Div(cxy, Sqrt(vx)), Sqrt(vy)))

-----------------------------------------------------------------------------
(* The insertion-ordered dictionary modify_table. *)

MtKeys(mt) == {mt[k][1] : k \in 1..Len(mt)}

MtHas(mt, key) == key \in MtKeys(mt)

MtGet(mt, key) == mt[CHOOSE k \in 1..Len(mt) : mt[k][1] = key][2]

\* mt[key] = val: an existing key keeps its position, a new one is appended
MtSet(mt, key, val) ==
    IF MtHas(mt, key)
    THEN [k \in 1..Len(mt) |-> IF mt[k][1] = key THEN <<key, val>> ELSE mt[k]]
    ELSE Append(mt, <<key, val>>)

-----------------------------------------------------------------------------
(* setup_relion_binning, hkl.py lines 301-362. *)

RECURSIVE SortPerm(_, _)
\* sort_by_resolution(ascending=False): the row positions of idx ordered by
\* descending d; rows of equal d keep their relative order
SortPerm(dcol, idx) ==
    IF idx = {} THEN <<>>
    ELSE LET m == SetMax({dcol[r] : r \in idx})
             top == {r \in idx : dcol[r] = m}
         IN  SortedSeq(top) \o SortPerm(dcol, idx \ top)

\* the table with every column reordered by perm, then reset_index
Reorder(t, perm) ==
    [lab \in DOMAIN t |-> [k \in 1..Len(perm) |-> t[lab][perm[k]]]]

\* (max_edge/d + 0.5).astype(int), line 307
RawBin(dv) == (2 * MaxEdge + dv) \div (2 * dv)

\* lines 303-307: optional sort, then the raw shell id of every row
WithRawBins(t, srt) ==
    LET u == IF srt THEN Reorder(t, SortPerm(t["d"], 1..NRows(t))) ELSE t
    IN  [lab \in DOMAIN u \cup {"bin"} |->
            IF lab = "bin" THEN [r \in 1..NRows(u) |-> RawBin(u["d"][r])]
            ELSE u[lab]]

\* rows of the table that carry shell id b
RowsOf(t, b) == {r \in 1..NRows(t) : t["bin"][r] = b}

RECURSIVE FirstSeen(_, _)
\* the non-zero values of a column in the order of their first appearance
FirstSeen(col, seen) ==
    IF col = <<>> THEN <<>>
    ELSE IF Head(col) = 0 \/ Head(col) \in seen THEN FirstSeen(Tail(col), seen)
    ELSE <<Head(col)>> \o FirstSeen(Tail(col), seen \cup {Head(col)})

\* groupby("bin", sort=False): the groups in the order of first appearance
GroupCountsUnsorted(t) ==
    LET ids == FirstSeen(t["bin"], {})
    IN  [k \in 1..Len(ids) |-> [id |-> ids[k], idx |-> RowsOf(t, ids[k])]]

\* lines 312-314: groupby("bin", sort=True) without the DC group 0
GroupCounts(t) ==
    LET ids == SortedSeq({t["bin"][r] : r \in 1..NRows(t)} \ {0})
    IN  [k \in 1..Len(ids) |-> [id |-> ids[k], idx |-> RowsOf(t, ids[k])]]

\* line 315: (max d, min d) of every group
GroupRanges(t) ==
    [b \in {t["bin"][r] : r \in 1..NRows(t)} \ {0} |->
        <<SetMax({t["d"][r] : r \in RowsOf(t, b)}),
          SetMin({t["d"][r] : r \in RowsOf(t, b)})>>]

\* lines 302-315
SetupStart ==
    /\ pc = "start"
    /\ df' = WithRawBins(df, sort)
    /\ bin_counts' = GroupCounts(WithRawBins(df, sort))
    /\ bin_ranges' = GroupRanges(WithRawBins(df, sort))
    /\ modify_table' = <<>>
    /\ i' = 1
    /\ pc' = "forward"
    /\ UNCHANGED <<call, sort, sweeps, bin_and_indices, binned_df, pipeline>>

\* the size test of the forward loop off by one (<= 10 for < 10)
ForwardCondInclusive(bc, k) ==
    k < Len(bc) /\ Cardinality(bc[k].idx) <= MinShellSize

\* a forward loop that never merges
ForwardCondNever(bc, k) == FALSE

\* line 318: the forward loop merges shell k (k counts from 1 here)
ForwardCond(bc, k) ==
    k < Len(bc) /\ Cardinality(bc[k].idx) < MinShellSize

\* a forward loop that forgets the union: the next shell keeps its own rows
ForwardUnionForgotten(bc, k) == bc

\* line 319: the next shell takes the union of the two index sets
ForwardUnion(bc, k) ==
    [bc EXCEPT ![k + 1].idx = bc[k + 1].idx \cup bc[k].idx]

\* lines 317-322: one iteration of the forward loop that merges
ForwardMerge ==
    /\ pc = "forward"
    /\ i <= Len(bin_counts)
    /\ ForwardCond(bin_counts, i)
    /\ bin_counts' = ForwardUnion(bin_counts, i)
    /\ modify_table' = MtSet(modify_table, bin_counts[i].id, bin_counts[i + 1].id)
    /\ i' = i + 1
    /\ UNCHANGED <<call, df, sort, bin_ranges, sweeps, bin_and_indices, binned_df, pc, pipeline>>

\* line 323 (break), or the loop over an empty list: go to the backward loop
ForwardStop ==
    /\ pc = "forward"
    /\ (i > Len(bin_counts) \/ ~ForwardCond(bin_counts, i))
    /\ i' = Len(bin_counts)
    /\ pc' = "backward"
    /\ UNCHANGED <<call, df, sort, bin_counts, bin_ranges, modify_table, sweeps,
                   bin_and_indices, binned_df, pipeline>>

\* the ratio test of the backward loop off by one (<= 0.5 for < 0.5)
BackwardCondInclusive(bc, k) ==
    k > 1 /\ 2 * Cardinality(bc[k].idx) <= Cardinality(bc[k - 1].idx)

\* line 326: len(cur)/len(prev) < 0.5, as 2*len(cur) < len(prev)
BackwardCond(bc, k) ==
    k > 1 /\ 2 * Cardinality(bc[k].idx) < Cardinality(bc[k - 1].idx)

\* a backward loop that forgets the union: the previous shell keeps its rows
BackwardUnionForgotten(bc, k) == bc

\* line 327
BackwardUnion(bc, k) ==
    [bc EXCEPT ![k - 1].idx = bc[k - 1].idx \cup bc[k].idx]

\* lines 325-330: one iteration of the backward loop that merges
BackwardMerge ==
    /\ pc = "backward"
    /\ i >= 1
    /\ BackwardCond(bin_counts, i)
    /\ bin_counts' = BackwardUnion(bin_counts, i)
    /\ modify_table' = MtSet(modify_table, bin_counts[i].id, bin_counts[i - 1].id)
    /\ i' = i - 1
    /\ UNCHANGED <<call, df, sort, bin_ranges, sweeps, bin_and_indices, binned_df, pc, pipeline>>

\* line 331 (break), or the loop over an empty list: go to the while loop
BackwardStop ==
    /\ pc = "backward"
    /\ (i < 1 \/ ~BackwardCond(bin_counts, i))
    /\ pc' = "resolve"
    /\ UNCHANGED <<call, df, sort, bin_counts, bin_ranges, modify_table, i, sweeps,
                   bin_and_indices, binned_df, pipeline>>

RECURSIVE SweepFrom(_, _, _)
\* lines 334-338: the for loop over the keys from position k on, in insertion
\* order; values are overwritten while the loop runs.  Gives <<table, flag>>
SweepFrom(mt, k, flag) ==
    IF k > Len(mt) THEN <<mt, flag>>
    ELSE IF MtHas(mt, mt[k][2])
         THEN SweepFrom(MtSet(mt, mt[k][1], MtGet(mt, mt[k][2])), k + 1, FALSE)
         ELSE SweepFrom(mt, k + 1, flag)

\* a while loop that exits at once and follows no chain
SweepNoFollow(mt) == <<mt, TRUE>>

\* one pass of the body of the while loop
Sweep(mt) == SweepFrom(mt, 1, TRUE)

\* the cap on the passes of the while loop the model follows
MaxSweeps == Len(DVals) + 1

\* lines 333-339: a pass that rewrote an entry, so the while loop goes on
ResolveSweep ==
    /\ pc = "resolve"
    /\ ~Sweep(modify_table)[2]
    /\ sweeps < MaxSweeps
    /\ modify_table' = Sweep(modify_table)[1]
    /\ sweeps' = sweeps + 1
    /\ UNCHANGED <<call, df, sort, bin_counts, bin_ranges, i, bin_and_indices,
                   binned_df, pc, pipeline>>

\* line 339: a pass that rewrote nothing leaves the while loop
ResolveExit ==
    /\ pc = "resolve"
    /\ Sweep(modify_table)[2]
    /\ i' = 1
    /\ pc' = "apply"
    /\ UNCHANGED <<call, df, sort, bin_counts, bin_ranges, modify_table, sweeps,
                   bin_and_indices, binned_df, pipeline>>

\* numpy.where with its two value arguments exchanged
RebinSwapped(t, i_bin, new_bin) ==
    [t EXCEPT !["bin"] =
        [r \in 1..NRows(t) |-> IF t["bin"][r] = i_bin THEN t["bin"][r] ELSE new_bin]]

\* line 343: rows carrying i_bin now carry new_bin
Rebin(t, i_bin, new_bin) ==
    [t EXCEPT !["bin"] =
        [r \in 1..NRows(t) |-> IF t["bin"][r] = i_bin THEN new_bin ELSE t["bin"][r]]]

\* max and min exchanged in the update of the range
MergeRangeSwapped(br, i_bin, new_bin) ==
    [br EXCEPT ![new_bin] =
        <<IF br[i_bin][1] <= br[new_bin][1] THEN br[i_bin][1] ELSE br[new_bin][1],
          IF br[i_bin][2] >= br[new_bin][2] THEN br[i_bin][2] ELSE br[new_bin][2]>>]

\* lines 344-345: the target's range becomes the hull of the two ranges
MergeRange(br, i_bin, new_bin) ==
    [br EXCEPT ![new_bin] =
        <<IF br[i_bin][1] >= br[new_bin][1] THEN br[i_bin][1] ELSE br[new_bin][1],
          IF br[i_bin][2] <= br[new_bin][2] THEN br[i_bin][2] ELSE br[new_bin][2]>>]

\* lines 341-345: one iteration of the loop that applies the table
ApplyEntry ==
    /\ pc = "apply"
    /\ i <= Len(modify_table)
    /\ df' = Rebin(df, modify_table[i][1], modify_table[i][2])
    /\ bin_ranges' = MergeRange(bin_ranges, modify_table[i][1], modify_table[i][2])
    /\ i' = i + 1
    /\ UNCHANGED <<call, sort, bin_counts, modify_table, sweeps, bin_and_indices,
                   binned_df, pc, pipeline>>

\* line 352 left out: every entry of bin_counts, merged or not
SurvivorsAll(bc, mt) == bc

\* line 352: the entries of bin_counts whose id is not a key of the table
Survivors(bc, mt) == SelectSeq(bc, LAMBDA e : ~MtHas(mt, e.id))

\* lines 347-361: the surviving shells, their index sets and their ranges
Build ==
    /\ pc = "apply"
    /\ i > Len(modify_table)
    /\ bin_and_indices' =
          [k \in 1..Len(Survivors(bin_counts, modify_table)) |->
              <<Survivors(bin_counts, modify_table)[k].id,
                Survivors(bin_counts, modify_table)[k].idx>>]
    /\ binned_df' =
          [k \in 1..Len(Survivors(bin_counts, modify_table)) |->
              [bin |-> Survivors(bin_counts, modify_table)[k].id,
               d_max |-> bin_ranges[Survivors(bin_counts, modify_table)[k].id][1],
               d_min |-> bin_ranges[Survivors(bin_counts, modify_table)[k].id][2]]]
    /\ pc' = "binned"
    /\ UNCHANGED <<call, df, sort, bin_counts, bin_ranges, modify_table, i, sweeps, pipeline>>

RECURSIVE Scatter(_, _, _, _)
\* lines 366-367 of binned_data_as_array: each <<i_bin, idxes>> of binned(), in
\* order, writes binned_df[lab][i_bin] at the positions idxes
Scatter(bi, bdf, lab, vals) ==
    IF bi = <<>> THEN vals
    ELSE LET v == bdf[CHOOSE k \in 1..Len(bdf) : bdf[k].bin = bi[1][1]][lab]
         IN  Scatter(Tail(bi), bdf, lab,
                     [r \in 1..Len(vals) |-> IF r \in bi[1][2] THEN v ELSE vals[r]])

\* lines 364-368: the per-shell value lab spread over the rows of the table,
\* 0 where no shell wrote
binned_data_as_array(t, bi, bdf, lab) ==
    Scatter(bi, bdf, lab, [r \in 1..NRows(t) |-> 0])

-----------------------------------------------------------------------------
(* The per-shell stages of spa/fofc.py: calc_noise_var, calc_D_and_S and   *)
(* calc_maps, in the order main calls them after setup_relion_binning.     *)

\* hkldata.bin_and_limits(): the shells of binned_df in index order, each
\* with its limits
bin_and_limits(bdf) ==
    [k \in 1..Len(bdf) |-> <<bdf[k].bin, bdf[k].d_max, bdf[k].d_min>>]

\* the values of column lab in the rows selected by i_bin == df.bin, in row
\* order
Sel(t, lab, i_bin) ==
    LET rows == SortedSeq(RowsOf(t, i_bin))
    IN  [k \in 1..Len(rows) |-> t[lab][rows[k]]]

\* arr[:] = 0 before arr[sel] = vals: the rows of the other shells are cleared
PutClearing(t, arr, i_bin, vals) ==
    LET rows == RowsOf(t, i_bin)
    IN  [r \in 1..Len(arr) |->
            IF r \in rows THEN vals[Cardinality({q \in rows : q <= r})] ELSE CZero]

\* arr[sel] = vals for the rows selected by i_bin == df.bin
Put(t, arr, i_bin, vals) ==
    LET rows == RowsOf(t, i_bin)
    IN  [r \in 1..Len(arr) |->
            IF r \in rows THEN vals[Cardinality({q \in rows : q <= r})] ELSE arr[r]]

\* binned_df[lab] = val: a new column with the same value in every row
WithColumn2(bdf, val) ==
    [k \in 1..Len(bdf) |->
        [bin |-> bdf[k].bin, d_max |-> bdf[k].d_max, d_min |-> bdf[k].d_min,
         var_noise |-> val, FSCfull |-> val]]

\* a shell with fewer members is skipped by calc_noise_var (fofc.py line 97)
MinNoiseSize == 3

\* line 97 with the threshold one lower: a shell of two members is not skipped
NoiseSkipCondTwo(sel1) == Len(sel1) < MinNoiseSize - 1

\* line 97
NoiseSkipCond(sel1) == Len(sel1) < MinNoiseSize

\* line 102: numpy.var(sel1-sel2)/4
NoiseVar(sel1, sel2) ==
    Div(Var([k \in 1..Len(sel1) |-> CSub(sel1[k], sel2[k])]), Num(4))

\* line 106: 2*fsc/(1+fsc)
FSCfullOf(fsc) == Div(Mul(Num(2), fsc), Add(One, fsc))

\* lines 79-85 of calc_noise_var, called by main when half maps are given
NoiseStart ==
    /\ pc = "binned"
    /\ has_halfmaps
    /\ binned_df' = WithColumn2(binned_df, Zero)
    /\ i' = 1
    /\ pc' = "noise"
    /\ UNCHANGED <<call, df, binning, pipeline>>

\* lines 86-99: a shell with fewer than 3 members, warning and continue
NoiseSkip ==
    /\ pc = "noise"
    /\ i <= Len(binned_df)
    /\ LET i_bin == bin_and_limits(binned_df)[i][1]
           sel1 == Sel(df, "F_map1", i_bin)
       IN  /\ NoiseSkipCond(sel1)
           /\ log' = Append(log, <<"skipping bin", i_bin, Len(sel1)>>)
    /\ i' = i + 1
    /\ UNCHANGED <<call, df, binning, binned_df, has_halfmaps, B, tmp, labs, ofs, pc>>

\* lines 86-106, the body of the loop for the k-th shell: what it leaves in
\* binned_df
NoiseShell(bdf, t, k) ==
    LET i_bin == bin_and_limits(bdf)[k][1]
        sel1 == Sel(t, "F_map1", i_bin)
        sel2 == Sel(t, "F_map2", i_bin)
    IN  IF NoiseSkipCond(sel1) THEN bdf
        ELSE [bdf EXCEPT ![k].var_noise = NoiseVar(sel1, sel2),
                         ![k].FSCfull = FSCfullOf(CorrCoef(sel1, sel2))]

\* lines 86-106: the statistics of one shell with at least 3 members
NoiseStep ==
    /\ pc = "noise"
    /\ i <= Len(binned_df)
    /\ ~NoiseSkipCond(Sel(df, "F_map1", bin_and_limits(binned_df)[i][1]))
    /\ binned_df' = NoiseShell(binned_df, df, i)
    /\ i' = i + 1
    /\ UNCHANGED <<call, df, binning, pipeline, pc>>

\* line 123 without the conjugate: sum(real(Fo*Fc)) / sum(abs(Fc)**2)
DOfNoConj(Fo, Fc) ==
    Div(SumSeq([k \in 1..Len(Fo) |->
                   Sub(Mul(Fo[k][1], Fc[k][1]), Mul(Fo[k][2], Fc[k][2]))]),
        SumSeq([k \in 1..Len(Fc) |-> Abs2(Fc[k])]))

\* line 123: sum(real(Fo*conj(Fc))) / sum(abs(Fc)**2)
DOf(Fo, Fc) ==
    Div(SumSeq([k \in 1..Len(Fo) |-> ReConjMul(Fo[k], Fc[k])]),
        SumSeq([k \in 1..Len(Fc) |-> Abs2(Fc[k])]))

\* Python's max(0, x): x when x > 0, else 0 (also when x is not a number)
Max0(x) == IF Lt(Zero, x) THEN x ELSE Zero

\* line 127: max(0, average(abs(Fo-D*Fc)**2) - varn)
SOf(Fo, Fc, D, varn) ==
    Max0(Sub(Mean([k \in 1..Len(Fo) |-> Abs2(CSub(Fo[k], CScale(Fc[k], D)))]), varn))

\* numpy.average(numpy.abs(F))
MeanAbs(F) == Mean([k \in 1..Len(F) |-> Sqrt(Abs2(F[k]))])

\* lines 110-117 of calc_D_and_S: the columns D and S, the header line
DSStart ==
    /\ \/ pc = "noise" /\ i > Len(binned_df)
       \/ pc = "binned" /\ ~has_halfmaps
    /\ binned_df' =
          [k \in 1..Len(binned_df) |->
              [lab \in DOMAIN binned_df[k] \cup {"D", "S"} |->
                  IF lab \in {"D", "S"} THEN Zero ELSE binned_df[k][lab]]]
    /\ ofs' = <<>>
    /\ i' = 1
    /\ pc' = "ds"
    /\ UNCHANGED <<call, df, binning, has_halfmaps, B, tmp, labs, log>>

\* lines 124-129: the noise variance and FSCfull the row of the report shows
ReportNoise(bdf, k, half) ==
    IF half THEN <<bdf[k].var_noise, bdf[k].FSCfull>> ELSE <<Zero, Zero>>

\* lines 118-127, the body of the loop for the k-th shell: what it leaves in
\* binned_df
DSShell(bdf, t, half, k) ==
    LET i_bin == bin_and_limits(bdf)[k][1]
        Fo == Sel(t, "FP", i_bin)
        Fc == Sel(t, "FC", i_bin)
        D == DOf(Fo, Fc)
    IN  [bdf EXCEPT ![k].D = D,
                    ![k].S = IF half THEN SOf(Fo, Fc, D, bdf[k].var_noise) ELSE bdf[k].S]

\* lines 118-133: D, S and the report row of one shell
DSStep ==
    /\ pc = "ds"
    /\ i <= Len(binned_df)
    /\ LET i_bin == bin_and_limits(binned_df)[i][1]
           Fo == Sel(df, "FP", i_bin)
           Fc == Sel(df, "FC", i_bin)
           D == DSShell(binned_df, df, has_halfmaps, i)[i].D
           S == DSShell(binned_df, df, has_halfmaps, i)[i].S
       IN  /\ binned_df' = DSShell(binned_df, df, has_halfmaps, i)
           /\ ofs' = Append(ofs,
                 [bin |-> i_bin, n |-> Len(Fo),
                  d_max |-> bin_and_limits(binned_df)[i][2],
                  d_min |-> bin_and_limits(binned_df)[i][3],
                  Fo |-> MeanAbs(Fo), Fc |-> MeanAbs(Fc),
                  FSC_model |-> CorrCoef(Fo, Fc),
                  FSC_full |-> ReportNoise(binned_df, i, has_halfmaps)[2],
                  D |-> D, S |-> S,
                  N |-> ReportNoise(binned_df, i, has_halfmaps)[1]])
    /\ i' = i + 1
    /\ UNCHANGED <<call, df, binning, has_halfmaps, B, tmp, labs, log, pc>>

\* lines 142-146: the labels of the outputs
Labels(half, b) ==
    IF half
    THEN <<"DELFWT", "FWT", "DELFWT_noscale", "FWT_noscale">>
         \o (IF b # <<>> THEN <<"DELFWT_b0", "FWT_b0">> ELSE <<>>)
    ELSE <<"DELFWT">>

\* lines 142-156 of calc_maps: every output array starts as zeros
MapsStart ==
    /\ pc = "ds"
    /\ i > Len(binned_df)
    /\ labs' = Labels(has_halfmaps, B)
    /\ tmp' = [l \in {Labels(has_halfmaps, B)[k] : k \in 1..Len(Labels(has_halfmaps, B))} |->
                  [r \in 1..NRows(df) |-> CZero]]
    /\ i' = 1
    /\ pc' = "maps"
    /\ UNCHANGED <<call, df, binning, binned_df, has_halfmaps, B, ofs, log>>

\* line 164: Fo-D*Fc
DiffOf(Fo, Fc, D) == [k \in 1..Len(Fo) |-> CSub(Fo[k], CScale(Fc[k], D))]

\* line 172: (Fo-D*Fc)*S/(S+varn)
DelfwtRaw(Fo, Fc, D, S, varn) ==
    [k \in 1..Len(Fo) |->
        CDivR(CScale(CSub(Fo[k], CScale(Fc[k], D)), S), Add(S, varn))]

\* line 173 without the model term: Fo*S/(S+varn)
FwtRawNoModel(Fo, Fc, D, S, varn) ==
    [k \in 1..Len(Fo) |-> CDivR(CScale(Fo[k], S), Add(S, varn))]

\* line 173: (Fo*S+varn*D*Fc)/(S+varn)
FwtRaw(Fo, Fc, D, S, varn) ==
    [k \in 1..Len(Fo) |->
        CDivR(CAdd(CScale(Fo[k], S), CScale(Fc[k], Mul(varn, D))), Add(S, varn))]

\* lines 178-179: numpy.std(Fo) * numpy.sqrt(FSCfull)
NormOf(Fo, FSCfull) == Mul(Std(Fo), Sqrt(FSCfull))

\* the threshold of line 180 is 1e-10 = 1/TenTo5^2
TenTo5 == 100000

\* a < 1e-10, for a finite or infinite
LtThreshold(a) ==
    IF a[1] <= 0 THEN a # NaN
    ELSE IF a[2] = 0 \/ a[1] > 21474 THEN FALSE
    ELSE a[1] * TenTo5 <= (a[2] - 1) \div TenTo5

\* line 180 without its second test: a not-a-number factor is let through
NormBadNoNaN(n_fo) == LtThreshold(n_fo)

\* line 180: n_fo < 1e-10 or n_fo != n_fo
NormBad(n_fo) == LtThreshold(n_fo) \/ n_fo = NaN

\* the shell statistics calc_maps reads, lines 162 and 168-170
ShellStats(bdf, k) == [D |-> bdf[k].D, S |-> bdf[k].S, FSCfull |-> bdf[k].FSCfull,
                       varn |-> bdf[k].var_noise]

\* lines 175-176: the unnormalized outputs of the shell
PutRaw(t, out, i_bin, st) ==
    LET Fo == Sel(t, "FP", i_bin)
        Fc == Sel(t, "FC", i_bin)
    IN  [out EXCEPT
            !["DELFWT_noscale"] =
                Put(t, out["DELFWT_noscale"], i_bin, DelfwtRaw(Fo, Fc, st.D, st.S, st.varn)),
            !["FWT_noscale"] =
                Put(t, out["FWT_noscale"], i_bin, FwtRaw(Fo, Fc, st.D, st.S, st.varn))]

RECURSIVE Pow2(_)
Pow2(e) == IF e = 0 THEN 1 ELSE 2 * Pow2(e - 1)

\* lines 190-191: numpy.exp(-B*s2/4) with s2 = 1/d^2.  B is counted in units
\* of 4*ln(2)*12^2, so that exp(-B*s2/4) = 2^(-b*(12/d)^2); b >= 0
KFactor(b, dv) == Frac(1, Pow2(b * ((12 * 12) \div (dv * dv))))

\* line 197: (Fo-D*Fc)*S*k/(S_l+varn)/n_fo with S_l = S*k2, k2 = k*k
DelfwtB(Fo, Fc, st, n_fo, k) ==
    [j \in 1..Len(Fo) |->
        CDivR(CDivR(CScale(CScale(CSub(Fo[j], CScale(Fc[j], st.D)), st.S), k[j]),
                    Add(Mul(st.S, Mul(k[j], k[j])), st.varn)),
              n_fo)]

\* line 198: (Fo*S_l+varn*D*Fc)/(S_l+varn)/n_fo/k
FwtB(Fo, Fc, st, n_fo, k) ==
    [j \in 1..Len(Fo) |->
        CDivR(CDivR(CDivR(CAdd(CScale(Fo[j], Mul(st.S, Mul(k[j], k[j]))),
                               CScale(Fc[j], Mul(st.varn, st.D))),
                          Add(Mul(st.S, Mul(k[j], k[j])), st.varn)),
                    n_fo),
              k[j])]

\* lines 185-187: the normalized outputs, under DELFWT/FWT or, when B is
\* given, under DELFWT_b0/FWT_b0
PutNorm(t, out, i_bin, st, n_fo, suf) ==
    LET Fo == Sel(t, "FP", i_bin)
        Fc == Sel(t, "FC", i_bin)
        delfwt == DelfwtRaw(Fo, Fc, st.D, st.S, st.varn)
        fwt == FwtRaw(Fo, Fc, st.D, st.S, st.varn)
    IN  [out EXCEPT
            !["DELFWT" \o suf] =
                Put(t, out["DELFWT" \o suf], i_bin,
                    [j \in 1..Len(Fo) |-> CDivR(delfwt[j], n_fo)]),
            !["FWT" \o suf] =
                Put(t, out["FWT" \o suf], i_bin,
                    [j \in 1..Len(Fo) |-> CDivR(fwt[j], n_fo)])]

\* lines 189-207 with the B-adjusted outputs stored under the _b0 labels
PutBOverB0(t, out, i_bin, st, n_fo, b) ==
    LET Fo == Sel(t, "FP", i_bin)
        Fc == Sel(t, "FC", i_bin)
        dsel == Sel(t, "d", i_bin)
        k == [j \in 1..Len(dsel) |-> KFactor(b, dsel[j])]
    IN  [out EXCEPT
            !["DELFWT_b0"] = Put(t, out["DELFWT_b0"], i_bin, DelfwtB(Fo, Fc, st, n_fo, k)),
            !["FWT_b0"] = Put(t, out["FWT_b0"], i_bin, FwtB(Fo, Fc, st, n_fo, k))]

\* lines 189-207: the B-adjusted outputs go to DELFWT/FWT
PutB(t, out, i_bin, st, n_fo, b) ==
    LET Fo == Sel(t, "FP", i_bin)
        Fc == Sel(t, "FC", i_bin)
        dsel == Sel(t, "d", i_bin)
        k == [j \in 1..Len(dsel) |-> KFactor(b, dsel[j])]
    IN  [out EXCEPT
            !["DELFWT"] = Put(t, out["DELFWT"], i_bin, DelfwtB(Fo, Fc, st, n_fo, k)),
            !["FWT"] = Put(t, out["FWT"], i_bin, FwtB(Fo, Fc, st, n_fo, k))]

\* lines 158-207, the body of the loop for the k-th shell: what it leaves in
\* the output arrays
MapsShell(out, bdf, t, half, b, k) ==
    LET i_bin == bin_and_limits(bdf)[k][1]
        st == ShellStats(bdf, k)
        Fo == Sel(t, "FP", i_bin)
        Fc == Sel(t, "FC", i_bin)
        n_fo == NormOf(Fo, st.FSCfull)
    IN  IF ~half
        THEN [out EXCEPT !["DELFWT"] = Put(t, out["DELFWT"], i_bin, DiffOf(Fo, Fc, bdf[k].D))]
        ELSE IF NormBad(n_fo) THEN PutRaw(t, out, i_bin, st)
        ELSE IF b = <<>> THEN PutNorm(t, PutRaw(t, out, i_bin, st), i_bin, st, n_fo, "")
        ELSE PutB(t, PutNorm(t, PutRaw(t, out, i_bin, st), i_bin, st, n_fo, "_b0"),
                  i_bin, st, n_fo, b[1])

\* lines 158-166: one shell when there are no half maps
MapsNoHalf ==
    /\ pc = "maps"
    /\ i <= Len(binned_df)
    /\ ~has_halfmaps
    /\ tmp' = MapsShell(tmp, binned_df, df, has_halfmaps, B, i)
    /\ i' = i + 1
    /\ UNCHANGED <<call, df, binning, binned_df, has_halfmaps, B, labs, ofs, log, pc>>

\* lines 158-182: a shell whose normalization is unusable: the unnormalized
\* outputs, a warning, continue
MapsSkip ==
    /\ pc = "maps"
    /\ i <= Len(binned_df)
    /\ has_halfmaps
    /\ LET i_bin == bin_and_limits(binned_df)[i][1]
           st == ShellStats(binned_df, i)
           Fo == Sel(df, "FP", i_bin)
       IN  /\ NormBad(NormOf(Fo, st.FSCfull))
           /\ log' = Append(log, <<"skipping bin", i_bin, Std(Fo), st.FSCfull>>)
    /\ tmp' = MapsShell(tmp, binned_df, df, has_halfmaps, B, i)
    /\ i' = i + 1
    /\ UNCHANGED <<call, df, binning, binned_df, has_halfmaps, B, labs, ofs, pc>>

\* lines 158-207: a shell with a usable normalization, no B
MapsNorm ==
    /\ pc = "maps"
    /\ i <= Len(binned_df)
    /\ has_halfmaps
    /\ B = <<>>
    /\ ~NormBad(NormOf(Sel(df, "FP", bin_and_limits(binned_df)[i][1]), binned_df[i].FSCfull))
    /\ tmp' = MapsShell(tmp, binned_df, df, has_halfmaps, B, i)
    /\ i' = i + 1
    /\ UNCHANGED <<call, df, binning, binned_df, has_halfmaps, B, labs, ofs, log, pc>>

\* lines 158-207: a shell with a usable normalization, B given
MapsNormB ==
    /\ pc = "maps"
    /\ i <= Len(binned_df)
    /\ has_halfmaps
    /\ B # <<>>
    /\ ~NormBad(NormOf(Sel(df, "FP", bin_and_limits(binned_df)[i][1]), binned_df[i].FSCfull))
    /\ tmp' = MapsShell(tmp, binned_df, df, has_halfmaps, B, i)
    /\ i' = i + 1
    /\ UNCHANGED <<call, df, binning, binned_df, has_halfmaps, B, labs, ofs, log, pc>>

\* lines 209-213: the outputs become columns of the table
MapsFinish ==
    /\ pc = "maps"
    /\ i > Len(binned_df)
    /\ df' = [l \in DOMAIN df \cup DOMAIN tmp |-> IF l \in DOMAIN tmp THEN tmp[l] ELSE df[l]]
    /\ pc' = "done"
    /\ UNCHANGED <<call, binning, i, binned_df, pipeline>>

-----------------------------------------------------------------------------
(* The input tables and the specifications. *)

RECURSIVE RowKeys(_, _)
\* the rows of a table with mult[k] rows of the k-th d-spacing, interleaved
\* (the order of the rows of a table is arbitrary): row <<k, j>> is the j-th
\* row of the k-th d-spacing; round counts the passes made so far
RowKeys(mult, round) ==
    IF \A k \in DOMAIN mult : mult[k] <= round THEN <<>>
    ELSE SelectSeq([k \in DOMAIN mult |-> IF mult[k] > round THEN <<k, round + 1>> ELSE <<0, 0>>],
                   LAMBDA key : key[1] # 0)
         \o RowKeys(mult, round + 1)

\* the tables the binning alone is run on: a d column
InputTables ==
    {LET keys == RowKeys(mult, 0)
     IN  [d |-> [r \in 1..Len(keys) |-> DVals[keys[r][1]]]] :
        mult \in {<<c1, c2, c3, c4, c5, c6>> :
                     c1 \in CountChoices(DVals[1]), c2 \in CountChoices(DVals[2]),
                     c3 \in CountChoices(DVals[3]), c4 \in CountChoices(DVals[4]),
                     c5 \in CountChoices(DVals[5]), c6 \in CountChoices(DVals[6])}}

Init ==
    /\ df \in InputTables
    /\ sort \in BOOLEAN
    /\ bin_counts = <<>>
    /\ bin_ranges = <<>>
    /\ modify_table = <<>>
    /\ i = 0
    /\ sweeps = 0
    /\ bin_and_indices = <<>>
    /\ binned_df = <<>>
    /\ has_halfmaps = FALSE
    /\ B = <<>>
    /\ tmp = <<>>
    /\ labs = <<>>
    /\ ofs = <<>>
    /\ log = <<>>
    /\ pc = "start"
    /\ args = [halfmaps |-> FALSE, map |-> TRUE, B |-> <<>>, omit |-> FALSE]
    /\ structure = TRUE

\* setup_relion_binning
Next ==
    \/ SetupStart
    \/ ForwardMerge
    \/ ForwardStop
    \/ BackwardMerge
    \/ BackwardStop
    \/ ResolveSweep
    \/ ResolveExit
    \/ ApplyEntry
    \/ Build

Spec == Init /\ [][Next]_vars

\* the d-spacings of the tables the whole pipeline is run on, in row order
MapDVals == <<12, 6, 30, 4>>

\* how many rows carry the k-th d-spacing of MapDVals; every table has the
\* one row of the DC component
MapCounts == {<<c1, c2, 1, c4>> :
                 c1 \in {0, MinNoiseSize, MinShellSize}, c2 \in {0, 2, 5},
                 c4 \in {0, 1, MinNoiseSize}}

\* the real parts of a signal that varies from row to row
SigRe(j) == <<2, -1, 1, 0>>[((j - 1) % 4) + 1]

\* an alternating imaginary part
AltIm(j) == IF j % 2 = 1 THEN 1 ELSE -1

\* the two half-map values and the model value of the j-th row of a kind of
\* data: "signal" (halves differ by noise, the model leaves a residual),
\* "zerosig" (halves differ by noise, the model explains Fo), "perfect"
\* (identical halves, Fc = Fo), "constant" (the same values in every row),
\* "anti" (half2 = -half1), "nomodel" (Fc = 0), "flat" (identical halves with
\* the same value in every row), "unmodelled" (halves differ by noise, Fc = 0)
Pattern(kind, j) ==
    CASE kind = "signal" ->
           [F_map1 |-> Cx(SigRe(j), AltIm(j)), F_map2 |-> Cx(SigRe(j), -AltIm(j)),
            FC |-> Cx(1, 0)]
      [] kind = "zerosig" ->
           [F_map1 |-> Cx(SigRe(j), AltIm(j)), F_map2 |-> Cx(SigRe(j), -AltIm(j)),
            FC |-> Cx(2 * SigRe(j), 0)]
      [] kind = "perfect" ->
           [F_map1 |-> Cx(SigRe(j), AltIm(j)), F_map2 |-> Cx(SigRe(j), AltIm(j)),
            FC |-> Cx(SigRe(j), AltIm(j))]
      [] kind = "constant" ->
           [F_map1 |-> <<Frac(21, 10), Zero>>, F_map2 |-> <<Frac(19, 10), Zero>>,
            FC |-> Cx(1, 0)]
      [] kind = "anti" ->
           [F_map1 |-> Cx(SigRe(j), AltIm(j)), F_map2 |-> Cx(-SigRe(j), -AltIm(j)),
            FC |-> Cx(1, 0)]
      [] kind = "nomodel" ->
           [F_map1 |-> Cx(SigRe(j), 0), F_map2 |-> Cx(SigRe(j), 0), FC |-> CZero]
      [] kind = "unmodelled" ->
           [F_map1 |-> Cx(SigRe(j), AltIm(j)), F_map2 |-> Cx(SigRe(j), -AltIm(j)),
            FC |-> CZero]
      [] kind = "flat" ->
           [F_map1 |-> Cx(2, 0), F_map2 |-> Cx(2, 0), FC |-> Cx(1, 0)]

\* the kind of data of each d-spacing of MapDVals
Scenarios ==
    <<<<"signal", "signal", "signal", "signal">>,
      <<"perfect", "zerosig", "signal", "constant">>,
      <<"constant", "anti", "signal", "perfect">>,
      <<"zerosig", "perfect", "signal", "anti">>,
      <<"anti", "nomodel", "signal", "zerosig">>,
      <<"flat", "unmodelled", "signal", "flat">>>>

\* mask_and_fft_maps line 62: FP = (F_map1 + F_map2)/2
FPOf(f1, f2) == CScale(CAdd(f1, f2), Frac(1, 2))

\* the table main hands to setup_relion_binning (fofc.py lines 294-295): with
\* half maps the columns F_map1, F_map2, FP and FC, with one map FP and FC
MapTable(mult, scen, half) ==
    LET keys == RowKeys(mult, 0)
        val(r) == Pattern(scen[keys[r][1]], keys[r][2])
        rows == 1..Len(keys)
    IN  IF half
        THEN [d |-> [r \in rows |-> MapDVals[keys[r][1]]],
              F_map1 |-> [r \in rows |-> val(r).F_map1],
              F_map2 |-> [r \in rows |-> val(r).F_map2],
              FP |-> [r \in rows |-> FPOf(val(r).F_map1, val(r).F_map2)],
              FC |-> [r \in rows |-> val(r).FC]]
        ELSE [d |-> [r \in rows |-> MapDVals[keys[r][1]]],
              FP |-> [r \in rows |-> FPOf(val(r).F_map1, val(r).F_map2)],
              FC |-> [r \in rows |-> val(r).FC]]

\* main lines 257-262 and 301-308: half maps without B on every scenario;
\* half maps with B (0 or one unit of KFactor) and a single map on the first
\* two
Runs ==
    {[scen |-> n, half |-> TRUE, b |-> <<>>] : n \in 1..Len(Scenarios)}
    \cup {[scen |-> n, half |-> TRUE, b |-> <<b>>] : n \in {1, 2}, b \in {0, 1}}
    \cup {[scen |-> n, half |-> FALSE, b |-> <<>>] : n \in {1, 2}}

\* main line 302: the average B of the model, in the units of KFactor
ModelBave == 1

\* main lines 301-308: B = args.B - Bave, None when -B is not given
RelativeB(b) == IF b = <<>> THEN <<>> ELSE <<b[1] - ModelBave>>

\* B > 0 goes with the tables of the two outer d-spacings, whose factors
\* 1/2 and 1/16 keep the arithmetic within 32 bits
InitMaps ==
    /\ \E mult \in MapCounts, run \in Runs :
          /\ run.b \notin {<<>>, <<0>>} => mult[4] = 0
          /\ df = MapTable(mult, Scenarios[run.scen], run.half)
          /\ has_halfmaps = run.half
          /\ B = run.b
          /\ \E a \in [halfmaps : {run.half}, map : {~run.half},
                        B : {<<>>, <<1>>, <<2>>}, omit : {FALSE}] :
                /\ RelativeB(a.B) = run.b
                /\ args = a
    /\ structure = TRUE
    /\ sort = FALSE
    /\ bin_counts = <<>>
    /\ bin_ranges = <<>>
    /\ modify_table = <<>>
    /\ i = 0
    /\ sweeps = 0
    /\ bin_and_indices = <<>>
    /\ binned_df = <<>>
    /\ tmp = <<>>
    /\ labs = <<>>
    /\ ofs = <<>>
    /\ log = <<>>
    /\ pc = "start"

\* main from line 296 on: the binning, then the three stages
NextMaps ==
    \/ Next
    \/ NoiseStart
    \/ NoiseSkip
    \/ NoiseStep
    \/ DSStart
    \/ DSStep
    \/ MapsStart
    \/ MapsNoHalf
    \/ MapsSkip
    \/ MapsNorm
    \/ MapsNormB
    \/ MapsFinish

SpecMaps == InitMaps /\ [][NextMaps]_vars

-----------------------------------------------------------------------------
(* main (fofc.py lines 238-262): the checks of the arguments, then the     *)
(* reading of the model and of the maps.                                   *)

\* the command lines: half maps given or not, a single map given or not, -B
\* absent or given, --omit_proton/--omit_h_electron given or not
ArgSets == [halfmaps : BOOLEAN, map : BOOLEAN, B : {<<>>, <<1>>, <<2>>}, omit : BOOLEAN]

\* line 239 never true: a call without any map is let through
NoMapGivenNever(a) == FALSE

\* line 239: not args.halfmaps and not args.map
NoMapGiven(a) == ~a.halfmaps /\ ~a.map

\* line 243: not args.halfmaps and args.B is not None
BWithoutHalves(a) == ~a.halfmaps /\ a.B # <<>>

\* lines 239-241
MainNoMap ==
    /\ pc = "main"
    /\ NoMapGiven(args)
    /\ log' = Append(log, <<"Error: give --halfmaps or --map">>)
    /\ pc' = "returned"
    /\ UNCHANGED <<call, df, binning, i, binned_df, has_halfmaps, B, tmp, labs, ofs>>

\* lines 243-245
MainBWithoutHalves ==
    /\ pc = "main"
    /\ ~NoMapGiven(args)
    /\ BWithoutHalves(args)
    /\ log' = Append(log, <<"Error: -B only works for half maps">>)
    /\ pc' = "returned"
    /\ UNCHANGED <<call, df, binning, i, binned_df, has_halfmaps, B, tmp, labs, ofs>>

\* line 247: with --omit_proton or --omit_h_electron the test reads the local
\* st, which is assigned at line 254 only: UnboundLocalError
MainOmitRaise ==
    /\ pc = "main"
    /\ ~NoMapGiven(args)
    /\ ~BWithoutHalves(args)
    /\ args.omit
    /\ pc' = "raised"
    /\ UNCHANGED <<call, df, binning, i, binned_df, pipeline>>

\* lines 251-262 and 294-295: the warning, the model and the maps are read
\* and transformed into the table; B (lines 301-308) is a local that nothing
\* reads before calc_maps and is set here, its three informational log lines
\* are left out
MainRead ==
    /\ pc = "main"
    /\ ~NoMapGiven(args)
    /\ ~BWithoutHalves(args)
    /\ ~args.omit
    /\ log' = IF ~args.halfmaps
              THEN Append(log, <<"Warning: using --halfmaps is strongly recommended!">>)
              ELSE log
    /\ structure' = TRUE
    /\ has_halfmaps' = args.halfmaps
    /\ B' = RelativeB(args.B)
    /\ \E mult \in MapCounts, n \in 1..Len(Scenarios) :
          /\ [scen |-> n, half |-> args.halfmaps, b |-> RelativeB(args.B)] \in Runs
          /\ RelativeB(args.B) \notin {<<>>, <<0>>} => mult[4] = 0
          /\ df' = MapTable(mult, Scenarios[n], args.halfmaps)
    /\ pc' = "start"
    /\ UNCHANGED <<args, binning, i, binned_df, tmp, labs, ofs>>

InitMain ==
    /\ args \in ArgSets
    /\ structure = FALSE
    /\ df = <<>>
    /\ sort = FALSE
    /\ bin_counts = <<>>
    /\ bin_ranges = <<>>
    /\ modify_table = <<>>
    /\ i = 0
    /\ sweeps = 0
    /\ bin_and_indices = <<>>
    /\ binned_df = <<>>
    /\ has_halfmaps = FALSE
    /\ B = <<>>
    /\ tmp = <<>>
    /\ labs = <<>>
    /\ ofs = <<>>
    /\ log = <<>>
    /\ pc = "main"

NextMain ==
    \/ MainNoMap
    \/ MainBWithoutHalves
    \/ MainOmitRaise
    \/ MainRead
    \/ NextMaps

SpecMain == InitMain /\ [][NextMain]_vars

-----------------------------------------------------------------------------
(* What the claims are stated in: the raw shells of the table, computed    *)
(* from the d column alone.                                                *)

RawId(r) == (2 * MaxEdge + df["d"][r]) \div (2 * df["d"][r])

RawMembers(b) == {r \in 1..NRows(df) : RawId(r) = b}

\* the non-zero raw shell ids, ascending
RawIds == SortedSeq({RawId(r) : r \in 1..NRows(df)} \ {0})

NShells == Len(RawIds)

\* the rows of the raw shells at positions lo..hi of RawIds
RawSpan(lo, hi) == UNION {RawMembers(RawIds[k]) : k \in lo..hi}

\* the ids of the surviving shells, in the order of binned_df
SurvivorIds == [k \in 1..Len(binned_df) |-> binned_df[k].bin]

SurvivorSet == {binned_df[k].bin : k \in 1..Len(binned_df)}

\* rows that carry shell id b now
Members(b) == {r \in 1..NRows(df) : df["bin"][r] = b}

ForwardEntries == {modify_table[k] : k \in {j \in 1..Len(modify_table) :
                                              modify_table[j][2] > modify_table[j][1]}}

BackwardEntries == {modify_table[k] : k \in {j \in 1..Len(modify_table) :
                                               modify_table[j][2] < modify_table[j][1]}}

RECURSIVE Escapes(_, _, _)
\* following the table from key leaves the keys within n steps
Escapes(mt, key, n) ==
    IF ~MtHas(mt, key) THEN TRUE
    ELSE IF n = 0 THEN FALSE
    ELSE Escapes(mt, MtGet(mt, key), n - 1)

Acyclic(mt) == \A key \in MtKeys(mt) : Escapes(mt, key, Len(mt))

\* C1: setup_relion_binning terminates.  From the first loop until the shells
\* are built some step is always possible (the grouping before the loops is
\* one unconditional step), the forward and the backward loop move i by one per
\* step inside 1..len(bin_counts), the while loop makes at most one pass per
\* table entry, and the table never holds a cycle (a -> b and b -> a).
C1_Terminates ==
    /\ pc \notin {"start", "binned"} => ENABLED Next
    /\ pc = "forward" => i \in 1..(Len(bin_counts) + 1)
    /\ pc = "backward" => i \in 0..Len(bin_counts)
    /\ sweeps <= Len(modify_table)
    /\ Acyclic(modify_table)

C1_Witness ==
    /\ pc = "binned"
    /\ sweeps >= 1
    /\ ForwardEntries # {}
    /\ BackwardEntries # {}

RECURSIVE RebinAll(_, _)
\* the record ids rewritten through the entries, one entry after the other
RebinAll(t, entries) ==
    IF entries = <<>> THEN t
    ELSE RebinAll(Rebin(t, Head(entries)[1], Head(entries)[2]), Tail(entries))

\* the orders in which n entries can be applied
Orders(n) == {p \in [1..n -> 1..n] : \A a, b \in 1..n : p[a] = p[b] => a = b}

InOrder(mt, p) == [k \in 1..Len(mt) |-> mt[p[k]]]

\* C2: once the while loop has exited no value of modify_table is a key;
\* rewriting the raw ids through the table gives the same ids in every order
\* of the entries, and rewriting the final ids again changes nothing.
C2_Resolved ==
    pc \in {"apply", "binned"} =>
        /\ \A k \in 1..Len(modify_table) : ~MtHas(modify_table, modify_table[k][2])
        /\ (pc = "apply" /\ i = 1) =>
              \A p \in Orders(Len(modify_table)) :
                  RebinAll(df, InOrder(modify_table, p)) = RebinAll(df, modify_table)
        /\ pc = "binned" =>
              \A p \in Orders(Len(modify_table)) :
                  RebinAll(df, InOrder(modify_table, p)) = df

C2_Witness ==
    /\ pc = "binned"
    /\ sweeps >= 2
    /\ Len(modify_table) >= 3

\* C3: after the binning a record with a non-zero raw id carries the id of a
\* surviving shell, a record with raw id 0 carries 0, the surviving shell
\* list has no 0 and no id twice, and no record carries a merged-away id.
C3_OneShell ==
    pc = "binned" =>
        /\ \A r \in 1..NRows(df) :
              /\ RawId(r) # 0 => df["bin"][r] \in SurvivorSet
              /\ RawId(r) = 0 => df["bin"][r] = 0
              /\ ~MtHas(modify_table, df["bin"][r])
        /\ 0 \notin SurvivorSet
        /\ Cardinality(SurvivorSet) = Len(binned_df)

C3_Witness ==
    /\ pc = "binned"
    /\ Len(binned_df) >= 2
    /\ modify_table # <<>>
    /\ \E r \in 1..NRows(df) : RawId(r) = 0
    /\ \E r \in 1..NRows(df) : RawId(r) # 0 /\ df["bin"][r] # RawId(r)

\* C4: the surviving shells are listed by ascending id, and between two of
\* them every member (and the recorded range) of the lower id lies at larger
\* d-spacing than every member (and the range) of the higher id.
C4_Ordered ==
    pc = "binned" =>
        \A k, l \in 1..Len(binned_df) :
            k < l =>
                /\ binned_df[k].bin < binned_df[l].bin
                /\ binned_df[k].d_min > binned_df[l].d_max
                /\ \A r \in Members(binned_df[k].bin), q \in Members(binned_df[l].bin) :
                      df["d"][r] > df["d"][q]

C4_Witness ==
    /\ pc = "binned"
    /\ Len(binned_df) >= 2
    /\ ForwardEntries # {}
    /\ BackwardEntries # {}

\* position in RawIds where the forward scan stops: the first shell that,
\* with all lower shells added, has 10 members, or the last shell
ForwardStopAt ==
    CHOOSE k \in 1..NShells :
        /\ k = NShells \/ Cardinality(RawSpan(1, k)) >= MinShellSize
        /\ \A j \in 1..(k - 1) : Cardinality(RawSpan(1, j)) < MinShellSize

\* C5: the forward pass merges exactly the shells below the stop position,
\* each into the next-higher id, the member count including what was merged
\* in from below; no shell at or above the stop position is merged forward.
C5_ForwardPass ==
    (pc = "backward" /\ NShells > 0) =>
        /\ ForwardEntries =
              {<<RawIds[k], RawIds[k + 1]>> : k \in 1..(ForwardStopAt - 1)}
        /\ i = Len(bin_counts) =>
              \A k \in 1..NShells :
                  bin_counts[k].idx =
                      IF k <= ForwardStopAt THEN RawSpan(1, k)
                      ELSE RawMembers(RawIds[k])

C5_Witness ==
    /\ pc = "backward"
    /\ NShells > 0
    /\ ForwardStopAt > 2
    /\ ForwardStopAt < NShells
    /\ Cardinality(RawMembers(RawIds[ForwardStopAt])) < MinShellSize
    /\ \E k \in (ForwardStopAt + 1)..NShells :
          Cardinality(RawMembers(RawIds[k])) < MinShellSize

\* members of the shell at position k when the forward pass has ended
AfterForward(k) ==
    IF k <= ForwardStopAt THEN RawSpan(1, k) ELSE RawMembers(RawIds[k])

\* the backward scan merges at position k: the shell with all higher shells
\* added has fewer than half the members of the shell below it
BackwardMergesAt(k) ==
    /\ k > 1
    /\ 2 * Cardinality(UNION {AfterForward(j) : j \in k..NShells})
          < Cardinality(AfterForward(k - 1))

\* position in RawIds where the backward scan stops
BackwardStopAt ==
    CHOOSE k \in 1..NShells :
        /\ ~BackwardMergesAt(k)
        /\ \A j \in (k + 1)..NShells : BackwardMergesAt(j)

\* C6: the backward pass merges exactly the shells above the stop position,
\* each into the next-lower shell; the scan does not resume below the first
\* shell that fails the ratio test.
C6_BackwardPass ==
    (pc = "resolve" /\ sweeps = 0 /\ NShells > 0) =>
        BackwardEntries =
            {<<RawIds[k], RawIds[k - 1]>> : k \in (BackwardStopAt + 1)..NShells}

C6_Witness ==
    /\ pc = "resolve"
    /\ sweeps = 0
    /\ NShells > 0
    /\ BackwardStopAt < NShells
    /\ \E k \in 2..(BackwardStopAt - 1) :
          2 * Cardinality(AfterForward(k)) < Cardinality(AfterForward(k - 1))

\* C7: the range of a surviving shell in binned_df is the hull of its
\* records: d_max the largest and d_min the smallest d-spacing of the records
\* that carry its id, whether they arrived directly or through a chain.
C7_RangeHull ==
    pc = "binned" =>
        \A k \in 1..Len(binned_df) :
            /\ Members(binned_df[k].bin) # {}
            /\ binned_df[k].d_max = SetMax({df["d"][r] : r \in Members(binned_df[k].bin)})
            /\ binned_df[k].d_min = SetMin({df["d"][r] : r \in Members(binned_df[k].bin)})

C7_Witness ==
    /\ pc = "binned"
    /\ sweeps >= 1
    /\ \E k \in 1..Len(binned_df) :
          /\ binned_df[k].d_max > binned_df[k].d_min
          /\ Cardinality({RawId(r) : r \in Members(binned_df[k].bin)}) >= 3

-----------------------------------------------------------------------------
(* What the claims about the per-shell stages are stated in. *)

\* the members of the k-th shell of binned_df
ShellRows(k) == RowsOf(df, binned_df[k].bin)

\* the k-th shell has been through calc_noise_var
NoiseDone(k) == has_halfmaps /\ (pc \in {"ds", "maps", "done"} \/ (pc = "noise" /\ k < i))

\* the k-th shell has been through the loop of calc_maps
MapsDone(k) == pc = "done" \/ (pc = "maps" /\ k < i)

\* a warning about shell i_bin with n values after its id has been written
Warned(i_bin, n) ==
    \E m \in 1..Len(log) :
        Len(log[m]) = n + 2 /\ log[m][1] = "skipping bin" /\ log[m][2] = i_bin

\* the normalization factor of the k-th shell, std(Fo)*sqrt(FSCfull)
NormFactor(k) == NormOf(Sel(df, "FP", binned_df[k].bin), binned_df[k].FSCfull)

\* (Fo-D*Fc)*S/(S+varn) of row r of the k-th shell
RawDelfwtAt(k, r) ==
    CDivR(CScale(CSub(df["FP"][r], CScale(df["FC"][r], binned_df[k].D)), binned_df[k].S),
          Add(binned_df[k].S, binned_df[k].var_noise))

\* (Fo*S+varn*D*Fc)/(S+varn) of row r of the k-th shell
RawFwtAt(k, r) ==
    CDivR(CAdd(CScale(df["FP"][r], binned_df[k].S),
               CScale(df["FC"][r], Mul(binned_df[k].var_noise, binned_df[k].D))),
          Add(binned_df[k].S, binned_df[k].var_noise))

\* the labels of the normalized outputs
NormLabels == {"DELFWT", "FWT"} \cup (IF B # <<>> THEN {"DELFWT_b0", "FWT_b0"} ELSE {})

(* C8: in calc_noise_var a shell with fewer than 3 members is skipped with  *)
(* a warning and not an error: its var_noise and FSCfull stay at the        *)
(* initial 0, every other shell has the statistics of its own members, and  *)
(* the loop goes on to the remaining shells (the skip is a step of the loop *)
(* to the next shell, whose statistics are computed when its turn comes).   *)
C8_NoiseSkip ==
    has_halfmaps /\ pc \in {"noise", "ds", "maps", "done"} =>
        /\ \A k \in 1..Len(binned_df) :
              LET i_bin == binned_df[k].bin
                  sel1 == Sel(df, "F_map1", i_bin)
                  sel2 == Sel(df, "F_map2", i_bin)
              IN  /\ NoiseDone(k) /\ Len(sel1) < 3 =>
                        /\ binned_df[k].var_noise = Zero
                        /\ binned_df[k].FSCfull = Zero
                        /\ \E m \in 1..Len(log) : log[m] = <<"skipping bin", i_bin, Len(sel1)>>
                  /\ NoiseDone(k) /\ Len(sel1) >= 3 =>
                        /\ binned_df[k].var_noise = NoiseVar(sel1, sel2)
                        /\ binned_df[k].FSCfull = FSCfullOf(CorrCoef(sel1, sel2))
                        /\ ~Warned(i_bin, 1)
                  /\ ~NoiseDone(k) =>
                        /\ binned_df[k].var_noise = Zero
                        /\ binned_df[k].FSCfull = Zero
        /\ pc = "noise" => i \in 1..(Len(binned_df) + 1)

\* calc_noise_var has skipped a shell and computed the statistics of a later
\* one, and the pipeline has run to its end
C8_Witness ==
    /\ pc = "done"
    /\ has_halfmaps
    /\ \E k, k2 \in 1..Len(binned_df) :
          /\ k < k2
          /\ Cardinality(ShellRows(k)) < 3
          /\ Warned(binned_df[k].bin, 1)
          /\ Cardinality(ShellRows(k2)) >= 3
          /\ binned_df[k2].var_noise \notin {Zero, NaN}
          /\ binned_df[k2].FSCfull \notin {Zero, NaN}

(* C9: in half-data mode of calc_maps a shell with S + varn == 0 (both      *)
(* exactly zero) has the value zero, not a not-a-number value, in its       *)
(* weighted outputs DELFWT_noscale, FWT_noscale and in every output derived *)
(* from them.  The code has no such case: it divides by S + varn.           *)
C9_ZeroDenominator ==
    has_halfmaps /\ pc \in {"maps", "done"} =>
        \A k \in 1..Len(binned_df) :
            MapsDone(k) /\ binned_df[k].S = Zero /\ binned_df[k].var_noise = Zero =>
                \A r \in ShellRows(k), l \in DOMAIN tmp : tmp[l][r] = CZero

(* C10: in half-data mode of calc_maps, when the normalization factor       *)
(* n = std(Fo)*sqrt(FSCfull) of a shell is below 1e-10 or is not a finite   *)
(* number, every normalized output of the shell's records (DELFWT, FWT, and *)
(* DELFWT_b0, FWT_b0 when B is given) is left at zero, DELFWT_noscale and   *)
(* FWT_noscale hold the raw values, a warning is written, and the loop goes *)
(* on to the next shell (a shell with a usable factor is normalized         *)
(* wherever it comes in the order).                                         *)
C10_NormSkip ==
    has_halfmaps /\ pc \in {"maps", "done"} =>
        /\ \A k \in 1..Len(binned_df) :
              MapsDone(k) /\ (LtThreshold(NormFactor(k)) \/ ~IsFinite(NormFactor(k))) =>
                  /\ \A r \in ShellRows(k) :
                        /\ \A l \in NormLabels : tmp[l][r] = CZero
                        /\ tmp["DELFWT_noscale"][r] = RawDelfwtAt(k, r)
                        /\ tmp["FWT_noscale"][r] = RawFwtAt(k, r)
                  /\ Warned(binned_df[k].bin, 2)
        /\ \A k \in 1..Len(binned_df) :
              MapsDone(k) /\ ~(LtThreshold(NormFactor(k)) \/ ~IsFinite(NormFactor(k))) =>
                  /\ \A r \in ShellRows(k) :
                        tmp[IF B = <<>> THEN "DELFWT" ELSE "DELFWT_b0"][r]
                            = CDivR(RawDelfwtAt(k, r), NormFactor(k))
                  /\ ~Warned(binned_df[k].bin, 2)
        /\ pc = "maps" => i \in 1..(Len(binned_df) + 1)
        /\ pc = "done" => \A l \in DOMAIN tmp : df[l] = tmp[l]

\* B is given, a shell with an unusable factor has non-zero raw outputs and
\* zero normalized ones, and a later shell has been normalized
C10_Witness ==
    /\ pc = "done"
    /\ has_halfmaps
    /\ B # <<>>
    /\ \E k, k2 \in 1..Len(binned_df) :
          /\ k < k2
          /\ NormBad(NormFactor(k))
          /\ \E r \in ShellRows(k) :
                /\ ~CIsNaN(df["DELFWT_noscale"][r])
                /\ df["DELFWT_noscale"][r] # CZero
                /\ df["DELFWT_b0"][r] = CZero
          /\ ~NormBad(NormFactor(k2))
          /\ \E r \in ShellRows(k2) :
                /\ ~CIsNaN(df["DELFWT"][r])
                /\ df["DELFWT"][r] # CZero

\* the k-th shell has been through the loop of calc_D_and_S
DSDone(k) == pc \in {"maps", "done"} \/ (pc = "ds" /\ k < i)

\* average(abs(Fo-D*Fc)**2) of the k-th shell with the D of binned_df
Residual(k) ==
    LET Fo == Sel(df, "FP", binned_df[k].bin)
        Fc == Sel(df, "FC", binned_df[k].bin)
    IN  Mean([j \in 1..Len(Fo) |-> Abs2(CSub(Fo[j], CScale(Fc[j], binned_df[k].D)))])

(* C11: for a shell calc_noise_var skipped (fewer than 3 members, so       *)
(* var_noise = 0 and FSCfull = 0), calc_D_and_S and calc_maps treat the     *)
(* zeros as "no information": where the residual average(|Fo-D*Fc|^2) is    *)
(* positive, S is not the value a noise variance of exactly 0 gives (the    *)
(* residual itself), and DELFWT_noscale is not the value it gives           *)
(* (Fo-D*Fc in every record).  The code reads the 0 as the noise variance.  *)
C11_NoInformation ==
    has_halfmaps /\ pc \in {"ds", "maps", "done"} =>
        \A k \in 1..Len(binned_df) :
            Cardinality(ShellRows(k)) < 3 /\ DSDone(k) /\ Lt(Zero, Residual(k)) =>
                /\ binned_df[k].S # Residual(k)
                /\ MapsDone(k) =>
                      \E r \in ShellRows(k) :
                          tmp["DELFWT_noscale"][r]
                              # CSub(df["FP"][r], CScale(df["FC"][r], binned_df[k].D))

\* binned_df as setup_relion_binning leaves it
BinnedBase == [k \in 1..Len(binned_df) |->
                  [bin |-> binned_df[k].bin, d_max |-> binned_df[k].d_max,
                   d_min |-> binned_df[k].d_min]]

RECURSIVE NoiseIn(_, _)
\* calc_noise_var with its loop taking the shells in the order ks
NoiseIn(bdf, ks) ==
    IF ks = <<>> THEN bdf ELSE NoiseIn(NoiseShell(bdf, df, Head(ks)), Tail(ks))

RECURSIVE DSIn(_, _)
\* calc_D_and_S with its loop taking the shells in the order ks
DSIn(bdf, ks) ==
    IF ks = <<>> THEN bdf ELSE DSIn(DSShell(bdf, df, has_halfmaps, Head(ks)), Tail(ks))

RECURSIVE MapsIn(_, _, _)
\* calc_maps with its loop taking the shells in the order ks
MapsIn(out, bdf, ks) ==
    IF ks = <<>> THEN out
    ELSE MapsIn(MapsShell(out, bdf, df, has_halfmaps, B, Head(ks)), bdf, Tail(ks))

\* the shell statistics when the two statistics loops take the orders p and q
StatsIn(p, q) ==
    LET noise == IF has_halfmaps THEN NoiseIn(WithColumn2(BinnedBase, Zero), p)
                 ELSE BinnedBase
        start == [k \in 1..Len(noise) |->
                     [lab \in DOMAIN noise[k] \cup {"D", "S"} |->
                         IF lab \in {"D", "S"} THEN Zero ELSE noise[k][lab]]]
    IN  DSIn(start, q)

\* the output arrays when the loop of calc_maps takes the order p
OutputsIn(p) ==
    MapsIn([l \in DOMAIN tmp |-> [r \in 1..NRows(df) |-> CZero]], binned_df, p)

\* the order of the loops of the code
Ascending == [k \in 1..Len(binned_df) |-> k]

\* a permutation as the sequence of shells it visits
AsSeq(p) == [k \in 1..Len(binned_df) |-> p[k]]

(* C12: the per-shell stages are independent across shells: a step writes   *)
(* only the rows of its shell in the output arrays and the row of its shell *)
(* in binned_df, and running the loops of calc_noise_var, calc_D_and_S and  *)
(* calc_maps over the surviving shells in any orders gives the shell        *)
(* statistics and the record table of the ascending order.                  *)
C12_ShellsIndependent ==
    /\ pc \in {"noise", "ds", "maps"} /\ i > 1 =>
          \A k \in 1..Len(binned_df) : k < i - 1 =>
              /\ pc = "noise" => binned_df[k] = NoiseIn(binned_df, <<k>>)[k]
              /\ pc = "ds" => binned_df[k] = DSIn(binned_df, <<k>>)[k]
              /\ pc = "maps" =>
                    LET again == MapsIn(tmp, binned_df, <<k>>)
                    IN  \A l \in DOMAIN tmp, r \in ShellRows(k) : tmp[l][r] = again[l][r]
    /\ pc = "done" =>
          /\ \A l \in DOMAIN tmp : df[l] = tmp[l]
          /\ \A p \in Orders(Len(binned_df)) :
                /\ StatsIn(AsSeq(p), Ascending) = binned_df
                /\ StatsIn(Ascending, AsSeq(p)) = binned_df
                /\ OutputsIn(AsSeq(p)) = tmp

\* three shells went through the three stages, and their outputs differ
C12_Witness ==
    /\ pc = "done"
    /\ has_halfmaps
    /\ Len(binned_df) = 3
    /\ \A k \in 1..3 : \E r \in ShellRows(k) : df["FWT_noscale"][r] # CZero
    /\ binned_df[1].D # binned_df[3].D
    /\ binned_df[1].var_noise # binned_df[3].var_noise

\* the shell ids the records carry; 0 marks a record outside every shell
\* (the DC component), it is not the id of a shell
CarriedIds == {df["bin"][r] : r \in 1..NRows(df)} \ {0}

(* C13: the Fstats report written by calc_D_and_S has exactly one row for   *)
(* every shell id the records of the binned table carry, no id twice, and   *)
(* the n of a row is the number of records that carry its id.  While the    *)
(* loop runs the report has the rows of the shells taken so far.            *)
C13_ReportRows ==
    pc \in {"ds", "maps", "done"} =>
        /\ \A a, b \in 1..Len(ofs) : ofs[a].bin = ofs[b].bin => a = b
        /\ \A a \in 1..Len(ofs) :
              /\ ofs[a].bin \in CarriedIds
              /\ ofs[a].n = Cardinality({r \in 1..NRows(df) : df["bin"][r] = ofs[a].bin})
        /\ pc = "ds" => Len(ofs) = i - 1
        /\ pc \in {"maps", "done"} => {ofs[a].bin : a \in 1..Len(ofs)} = CarriedIds

\* the report is complete for a table with a DC record whose shells were
\* merged and still differ in size
C13_Witness ==
    /\ pc = "done"
    /\ Len(ofs) >= 2
    /\ modify_table # <<>>
    /\ \E r \in 1..NRows(df) : df["bin"][r] = 0
    /\ \E a, b \in 1..Len(ofs) : ofs[a].n > ofs[b].n /\ ofs[b].n >= 1

\* Fo equals Fc in every record of the k-th shell, and sum(|Fc|^2) is not 0
PerfectModel(k) ==
    /\ \A r \in ShellRows(k) : df["FP"][r] = df["FC"][r]
    /\ \E r \in ShellRows(k) : df["FC"][r] # CZero

\* the noise variance calc_D_and_S uses for the k-th shell (lines 125, 129)
NoiseVarUsed(k) == IF has_halfmaps THEN binned_df[k].var_noise ELSE Zero

(* C14: perfect-model property of calc_D_and_S: for a shell where Fo equals *)
(* Fc in every record, with a non-zero sum of |Fc|^2, and whose noise       *)
(* variance is 0, the scale factor D is 1 and the signal variance S is 0.   *)
C14_PerfectModel ==
    pc \in {"ds", "maps", "done"} =>
        \A k \in 1..Len(binned_df) :
            DSDone(k) /\ PerfectModel(k) /\ NoiseVarUsed(k) = Zero =>
                /\ binned_df[k].D = One
                /\ binned_df[k].S = Zero

\* calc_D_and_S has taken a perfect-model shell of at least 3 records with
\* complex values that differ from record to record, next to another shell
C14_Witness ==
    /\ pc = "done"
    /\ has_halfmaps
    /\ \E k, k2 \in 1..Len(binned_df) :
          /\ k # k2
          /\ PerfectModel(k)
          /\ binned_df[k].var_noise = Zero
          /\ Cardinality(ShellRows(k)) >= 3
          /\ \E r, q \in ShellRows(k) : df["FP"][r] # df["FP"][q] /\ df["FP"][r][2] # Zero
          /\ binned_df[k2].D \notin {One, NaN}

\* half1 equals half2 in every record of the k-th shell
IdenticalHalves(k) == \A r \in ShellRows(k) : df["F_map1"][r] = df["F_map2"][r]

(* C15: identical-half property of calc_noise_var: for every shell with at  *)
(* least 3 members in which half1 equals half2 in every record, var_noise   *)
(* is 0 and FSCfull is 1 (the half-data correlation is 1), also when the    *)
(* values are the same in every record.  For such constant values the code  *)
(* divides a zero covariance by zero standard deviations.                   *)
C15_IdenticalHalves ==
    has_halfmaps /\ pc \in {"noise", "ds", "maps", "done"} =>
        \A k \in 1..Len(binned_df) :
            NoiseDone(k) /\ Cardinality(ShellRows(k)) >= 3 /\ IdenticalHalves(k) =>
                /\ binned_df[k].var_noise = Zero
                /\ binned_df[k].FSCfull = One

\* the k-th shell has gone through calc_maps with S == 0 and varn > 0
ZeroSignal(k) ==
    /\ has_halfmaps
    /\ MapsDone(k)
    /\ binned_df[k].S = Zero
    /\ Lt(Zero, binned_df[k].var_noise)

\* DELFWT_noscale = 0 and FWT_noscale = D*Fc in every record of the k-th shell
ReplacedByModel(k) ==
    \A r \in ShellRows(k) :
        /\ tmp["DELFWT_noscale"][r] = CZero
        /\ ~CIsNaN(tmp["FWT_noscale"][r])
        /\ tmp["FWT_noscale"][r] = CScale(df["FC"][r], binned_df[k].D)

(* C16 as stated: zero-signal limit of calc_maps in half-data mode: for a   *)
(* shell with S == 0 and varn > 0 the unnormalized outputs of every record  *)
(* are DELFWT_noscale = 0 and FWT_noscale = D*Fc.  It fails for a shell     *)
(* whose Fc are all 0: D is 0/0, max(0, not-a-number) makes S = 0, and both *)
(* outputs are not-a-number.                                                *)
C16_ZeroSignalAsStated ==
    pc \in {"maps", "done"} =>
        \A k \in 1..Len(binned_df) : ZeroSignal(k) => ReplacedByModel(k)

(* C16: zero-signal limit of calc_maps in half-data mode: for a shell with  *)
(* S == 0, varn > 0 and a finite scale factor D (a non-zero sum of |Fc|^2)  *)
(* the unnormalized outputs of every record are DELFWT_noscale = 0 and      *)
(* FWT_noscale = D*Fc.                                                      *)
C16_ZeroSignal ==
    pc \in {"maps", "done"} =>
        \A k \in 1..Len(binned_df) :
            ZeroSignal(k) /\ IsFinite(binned_df[k].D) => ReplacedByModel(k)

\* a zero-signal shell of at least three records whose model term D*Fc is
\* neither 0 nor the observed coefficient
C16_Witness ==
    /\ pc = "done"
    /\ \E k \in 1..Len(binned_df) :
          /\ ZeroSignal(k)
          /\ IsFinite(binned_df[k].D)
          /\ Cardinality(ShellRows(k)) >= MinNoiseSize
          /\ \E r \in ShellRows(k) :
                /\ df["DELFWT_noscale"][r] = CZero
                /\ df["FWT_noscale"][r] # CZero
                /\ df["FWT_noscale"][r] # df["FP"][r]

\* the labels calc_maps returns, as a set
LabelSet == {labs[k] : k \in 1..Len(labs)}

\* the k-th shell has a usable normalization factor
Normalizable(k) == ~LtThreshold(NormFactor(k)) /\ IsFinite(NormFactor(k))

\* S*k^2 + varn of row r of the k-th shell, k = exp(-B*s2/4) of the row
SharpDenom(k, r) ==
    LET kf == KFactor(B[1], df["d"][r])
    IN  Add(Mul(binned_df[k].S, Mul(kf, kf)), binned_df[k].var_noise)

\* (Fo-D*Fc)*S*k/(S*k^2+varn)/n_fo of row r of the k-th shell
SharpDelfwtAt(k, r) ==
    LET kf == KFactor(B[1], df["d"][r])
    IN  CDivR(CDivR(CScale(CScale(CSub(df["FP"][r], CScale(df["FC"][r], binned_df[k].D)),
                                  binned_df[k].S), kf),
                    SharpDenom(k, r)),
              NormFactor(k))

\* (Fo*S*k^2+varn*D*Fc)/(S*k^2+varn)/n_fo/k of row r of the k-th shell
SharpFwtAt(k, r) ==
    LET kf == KFactor(B[1], df["d"][r])
    IN  CDivR(CDivR(CDivR(CAdd(CScale(df["FP"][r], Mul(binned_df[k].S, Mul(kf, kf))),
                               CScale(df["FC"][r],
                                      Mul(binned_df[k].var_noise, binned_df[k].D))),
                          SharpDenom(k, r)),
                    NormFactor(k)),
              kf)

(* C17: in half-data mode without B calc_maps returns exactly the labels    *)
(* DELFWT, FWT, DELFWT_noscale, FWT_noscale, with DELFWT/FWT holding the    *)
(* normalized coefficients; with B it returns DELFWT_b0 and FWT_b0 as well, *)
(* which hold the normalized unadjusted coefficients while DELFWT/FWT hold  *)
(* the B-adjusted ones; each pair keeps its own values, and the returned    *)
(* labels are the columns stored in the table.                              *)
C17_Labels ==
    has_halfmaps /\ pc \in {"maps", "done"} =>
        /\ labs = IF B = <<>>
                  THEN <<"DELFWT", "FWT", "DELFWT_noscale", "FWT_noscale">>
                  ELSE <<"DELFWT", "FWT", "DELFWT_noscale", "FWT_noscale",
                         "DELFWT_b0", "FWT_b0">>
        /\ DOMAIN tmp = LabelSet
        /\ pc = "done" =>
              /\ LabelSet \subseteq DOMAIN df
              /\ {"DELFWT_b0", "FWT_b0"} \cap DOMAIN df = {"DELFWT_b0", "FWT_b0"} \cap LabelSet
              /\ \A l \in LabelSet : df[l] = tmp[l]
        /\ \A k \in 1..Len(binned_df) :
              MapsDone(k) /\ Normalizable(k) =>
                  \A r \in ShellRows(k) :
                      LET dn == CDivR(RawDelfwtAt(k, r), NormFactor(k))
                          fn == CDivR(RawFwtAt(k, r), NormFactor(k))
                      IN  /\ tmp["DELFWT_noscale"][r] = RawDelfwtAt(k, r)
                          /\ tmp["FWT_noscale"][r] = RawFwtAt(k, r)
                          /\ B = <<>> =>
                                /\ tmp["DELFWT"][r] = dn
                                /\ tmp["FWT"][r] = fn
                          /\ B # <<>> =>
                                /\ tmp["DELFWT_b0"][r] = dn
                                /\ tmp["FWT_b0"][r] = fn
                                /\ tmp["DELFWT"][r] = SharpDelfwtAt(k, r)
                                /\ tmp["FWT"][r] = SharpFwtAt(k, r)

\* a run with a non-zero B in which a record's B-adjusted coefficients differ
\* from its unadjusted ones, all of them non-zero
C17_Witness ==
    /\ pc = "done"
    /\ has_halfmaps
    /\ B # <<>>
    /\ B[1] > 0
    /\ \E k \in 1..Len(binned_df) :
          /\ Normalizable(k)
          /\ \E r \in ShellRows(k) :
                /\ \A l \in LabelSet : df[l][r] # CZero /\ ~CIsNaN(df[l][r])
                /\ df["DELFWT"][r] # df["DELFWT_b0"][r]
                /\ df["FWT"][r] # df["FWT_b0"][r]
                /\ df["DELFWT_b0"][r] # df["DELFWT_noscale"][r]

\* nothing of the computation has happened: the model is not read, there
\* is no table, no shell, no statistic and no output
NothingComputed ==
    /\ ~structure
    /\ df = <<>>
    /\ bin_counts = <<>> /\ bin_ranges = <<>> /\ bin_and_indices = <<>>
    /\ binned_df = <<>>
    /\ tmp = <<>> /\ labs = <<>> /\ ofs = <<>>

\* the arguments a are inconsistent: neither half maps nor a single map, or
\* a B value without half maps
Inconsistent(a) == ~a.halfmaps /\ (~a.map \/ a.B # <<>>)

\* the message main writes for the inconsistent arguments a
ErrorFor(a) ==
    IF ~a.map THEN <<"Error: give --halfmaps or --map">>
    ELSE <<"Error: -B only works for half maps">>

(* C18: when main is called with neither half maps nor a single map, or     *)
(* with a B value but no half maps, it reports the error and returns before *)
(* the model is read, any map is transformed, the binning is done or any    *)
(* per-shell statistic is computed: in such a call main is either at its    *)
(* entry or has returned with exactly the error message in the log, nothing *)
(* has been computed in either, and the only step it takes is the return.   *)
C18_ErrorFirst ==
    /\ [](Inconsistent(args) =>
             /\ pc \in {"main", "returned"}
             /\ NothingComputed
             /\ log = IF pc = "returned" THEN <<ErrorFor(args)>> ELSE <<>>)
    /\ [][Inconsistent(args) =>
             /\ pc = "main" /\ pc' = "returned"
             /\ log' = <<ErrorFor(args)>>]_vars

\* main has returned on a B value given with a single map and no half maps
C18_Witness ==
    /\ pc = "returned"
    /\ args.map /\ ~args.halfmaps /\ args.B # <<>>
    /\ log = <<<<"Error: -B only works for half maps">>>>
    /\ NothingComputed

\* the row of binned_df of the shell with id b
ShellOf(b) == binned_df[CHOOSE k \in 1..Len(binned_df) : binned_df[k].bin = b]

(* C19: after setup_relion_binning the index set stored for each surviving  *)
(* shell in _bin_and_indices is exactly the set of rows whose bin column    *)
(* equals that shell's id, whatever forward and backward merges were made;  *)
(* the sets of different surviving shells are disjoint and together cover   *)
(* all rows with a non-zero shell id, so that binned_data_as_array gives    *)
(* each such row the value of the shell named in its bin column.            *)
C19_IndexSets ==
    pc = "binned" =>
        /\ Len(bin_and_indices) = Len(binned_df)
        /\ \A k \in 1..Len(bin_and_indices) :
              /\ bin_and_indices[k][1] = binned_df[k].bin
              /\ bin_and_indices[k][2] = Members(bin_and_indices[k][1])
        /\ \A k, l \in 1..Len(bin_and_indices) :
              k # l => bin_and_indices[k][2] \cap bin_and_indices[l][2] = {}
        /\ UNION {bin_and_indices[k][2] : k \in 1..Len(bin_and_indices)} =
              {r \in 1..NRows(df) : df["bin"][r] # 0}
        /\ \A lab \in {"d_max", "d_min"} :
              LET vals == binned_data_as_array(df, bin_and_indices, binned_df, lab)
              IN  \A r \in 1..NRows(df) :
                      vals[r] = IF df["bin"][r] = 0 THEN 0 ELSE ShellOf(df["bin"][r])[lab]

\* two surviving shells, one grown by a forward merge and one by a backward
\* merge, and a row outside every shell
C19_Witness ==
    /\ pc = "binned"
    /\ Len(bin_and_indices) >= 2
    /\ ForwardEntries # {}
    /\ BackwardEntries # {}
    /\ \E r \in 1..NRows(df) : df["bin"][r] = 0
    /\ \E k, l \in 1..Len(bin_and_indices) :
          /\ k < l
          /\ bin_and_indices[k][2] # RawMembers(bin_and_indices[k][1])
          /\ bin_and_indices[l][2] # RawMembers(bin_and_indices[l][1])

\* the lowest and the highest id among the surviving shells
LowestSurvivor == SetMin(SurvivorSet)

HighestSurvivor == SetMax(SurvivorSet)

(* C20: after setup_relion_binning the lowest-id surviving shell has at     *)
(* least 10 members unless it is the only surviving shell; when two or more *)
(* shells survive, the highest-id surviving shell has at least half as many *)
(* members as the next-lower surviving shell; the shells strictly between   *)
(* the lowest and the highest survivor have exactly their raw members,      *)
(* whatever their number.                                                   *)
C20_SizeGuarantees ==
    (pc = "binned" /\ Cardinality(SurvivorSet) >= 2) =>
        /\ Cardinality(Members(LowestSurvivor)) >= MinShellSize
        /\ 2 * Cardinality(Members(HighestSurvivor)) >=
              Cardinality(Members(SetMax(SurvivorSet \ {HighestSurvivor})))
        /\ \A b \in SurvivorSet \ {LowestSurvivor, HighestSurvivor} :
              Members(b) = RawMembers(b)

\* three survivors: the lowest grown by a forward merge, a middle one and the
\* highest with fewer than 10 members each
C20_Witness ==
    /\ pc = "binned"
    /\ Cardinality(SurvivorSet) >= 3
    /\ ForwardEntries # {}
    /\ Members(LowestSurvivor) # RawMembers(LowestSurvivor)
    /\ \E b \in SurvivorSet \ {LowestSurvivor, HighestSurvivor} :
          /\ Cardinality(Members(b)) < MinShellSize
          /\ Cardinality(Members(HighestSurvivor)) < MinShellSize

=============================================================================
